---- MODULE Spec2Model ----
(***************************************************************************)
(* Model of the test-execution orchestrator TestRunner                     *)
(* (src/src/testRunner.ts): Run / Debug / Cancel entry points, the         *)
(* single-node run procedure, running-state propagation, result            *)
(* reconciliation and completion propagation.                              *)
(*                                                                         *)
(* JavaScript runs every handler to its next suspension point, so one      *)
(* action is one such stretch: a call of Run/Debug/Cancel up to the first  *)
(* await, the resumption after the exit-code promise settles, and the      *)
(* resumption after the results-file read settles.                         *)
(***************************************************************************)
EXTENDS Integers, Sequences, FiniteSets, TLC

-----------------------------------------------------------------------------
(* Bounds of the model *)

\* number of Run/Debug calls made on the orchestrator
MaxCalls == 2
\* number of Cancel calls made on the orchestrator
MaxCancels == 1
\* number of records in one results file
MaxResults == 2

-----------------------------------------------------------------------------
(* The discovered tree and the registry (TestDiscovery, external) *)

\* the value of an absent object (undefined)
Undefined == "undefined"

\* the identifiers of the nodes of the discovered tree
Nodes == {"root", "s1", "s2", "t1", "t2", "t3"}

\* node.type
NodeType(id) == IF id \in {"root", "s1", "s2"} THEN "suite" ELSE "test"

\* node.children, as identifiers in stored order
Children(id) ==
    CASE id = "root" -> <<"s1", "t3">>
      [] id = "s1"   -> <<"t1", "s2">>
      [] id = "s2"   -> <<"t2">>
      [] OTHER       -> <<>>

\* the registries the orchestrator is run against: the sets of identifiers
\* for which GetNode returns a context
Registries == {Nodes, Nodes \ {"s2"}, Nodes \ {"t2"}, Nodes \ {"root"}}

\* the identifier lists passed to Run and Debug
Requests == {<<"root">>, <<"s1", "t3">>, <<"zz", "t1">>}

\* the identifier lists of the single requests reconciliation is explored with
SingleRequests == {<<"s1">>, <<"zz", "s2">>, <<"t1">>}

\* the configured environment overlays (configManager.get('runEnvVars'))
Overlays == {{}, {<<"FOO", "x">>}, {<<"VSTEST_HOST_DEBUG", "0">>}}

-----------------------------------------------------------------------------
(* Result records (TestResultsFile, external) *)

Outcomes == {"Error", "Failed", "Passed", "NotExecuted", "Inconclusive"}

Result(n, o) == [fullName |-> n, outcome |-> o, message |-> "msg:" \o n,
                 stackTrace |-> "trace:" \o n]

\* the records a results file is made of
Records ==
    { Result("t1", o) : o \in Outcomes }
      \cup { Result("t2", "Passed"), Result("t2", "Failed"),
             Result("zz", "Passed") }

\* the contents of a results file: the record sequences of bounded length
RECURSIVE SeqsUpTo(_, _)
SeqsUpTo(S, n) ==
    IF n = 0 THEN {<<>>}
    ELSE LET shorter == SeqsUpTo(S, n - 1)
         IN  shorter \cup { Append(s, x) : s \in shorter, x \in S }

ResultFiles == SeqsUpTo(Records, MaxResults)

\* the results files the interleavings of several requests are explored with
SampleFiles ==
    { <<Result("t2", "Failed"), Result("t1", "Passed")>>,
      <<Result("t1", "Inconclusive"), Result("t3", "NotExecuted")>> }

-----------------------------------------------------------------------------
(* Events *)

\* the event of a context that has none yet
NoEvent == [type |-> "none"]

SuiteEvent(id, st) == [type |-> "suite", suite |-> id, state |-> st]

TestEventRunning(id) == [type |-> "test", test |-> id, state |-> "running"]

\* the identifier an event carries
EventId(e) ==
    IF e.type = "suite" THEN e.suite
    ELSE IF e.type = "test" THEN e.test ELSE Undefined

-----------------------------------------------------------------------------
VARIABLES
    registry,     \* identifiers GetNode finds
    envVars,      \* configured environment overlay
    event,        \* event[id]: nodeContext.event of the context of id
    Runningtest,  \* the running-handle: 0 (undefined) or a process number
    procs,        \* the processes launched so far
    runs,         \* the InnerRun invocations that were not dropped; log
                  \* holds, per RunTest call, the events that call fired
    fired,        \* the events fired on testStatesEmitter, in order
    logged,       \* number of log.error calls
    calls,        \* number of Run/Debug calls made
    cancels,      \* number of Cancel calls made
    step          \* the handler that ran last, with its inputs

vars == <<registry, envVars, event, Runningtest, procs, runs, fired, logged,
          calls, cancels, step>>

\* testDiscovery.GetNode(id): the context of id (named by id), or undefined
GetNode(id) == IF id \in registry THEN id ELSE Undefined

\* the last position of ids, from i on, whose identifier GetNode finds, or 0
FirstFoundFromTheEnd(ids, i) ==
    LET S == { k \in i..Len(ids) : GetNode(ids[k]) # Undefined }
    IN  IF S = {} THEN 0 ELSE CHOOSE k \in S : \A j \in S : j <= k

\* the first position of ids whose identifier GetNode finds, or 0
RECURSIVE FirstFound(_, _)
FirstFound(ids, i) ==
    IF i > Len(ids) THEN 0
    ELSE IF GetNode(ids[i]) # Undefined THEN i
    ELSE FirstFound(ids, i + 1)

\* the assignments nodeContext.event = e made for the events evs, in order
RECURSIVE SetEvents(_, _)
SetEvents(ev, evs) ==
    IF evs = <<>> THEN ev
    ELSE SetEvents([ev EXCEPT ![EventId(Head(evs))] = Head(evs)], Tail(evs))

-----------------------------------------------------------------------------
(* The tree walks *)

\* TriggerRunningEvents(node): the events it fires, in order
RECURSIVE TriggerRunningEvents(_), TriggerChildren(_, _)
TriggerRunningEvents(id) ==
    IF GetNode(id) = Undefined THEN <<>>
    ELSE IF NodeType(id) = "suite"
         THEN <<SuiteEvent(id, "running")>> \o TriggerChildren(Children(id), 1)
         ELSE <<TestEventRunning(id)>>

\* the loop over node.children of TriggerRunningEvents
TriggerChildren(ch, i) ==
    IF i > Len(ch) THEN <<>>
    ELSE TriggerRunningEvents(ch[i]) \o TriggerChildren(ch, i + 1)

RECURSIVE MarkSuiteComplete(_), MarkChildren(_, _)

\* MarkSuiteComplete firing the suite's own completed event before it
\* recurses into the children
MarkSuiteCompleteParentFirst(id) ==
    IF NodeType(id) = "test" THEN <<>>
    ELSE (IF GetNode(id) = Undefined THEN <<>>
          ELSE <<SuiteEvent(id, "completed")>>)
           \o MarkChildren(Children(id), 1)

\* MarkSuiteComplete(node): the events it fires, in order
MarkSuiteComplete(id) ==
    IF NodeType(id) = "test" THEN <<>>
    ELSE MarkChildren(Children(id), 1)
           \o (IF GetNode(id) = Undefined THEN <<>>
               ELSE <<SuiteEvent(id, "completed")>>)

\* the loop over node.children of MarkSuiteComplete
MarkChildren(ch, i) ==
    IF i > Len(ch) THEN <<>>
    ELSE MarkSuiteComplete(ch[i]) \o MarkChildren(ch, i + 1)

\* GetTestsFromNode(node): the contexts of the leaves, each the result of
\* GetNode (so undefined for a leaf the registry does not hold)
RECURSIVE GetTestsFromNode(_), GetTestsFromChildren(_, _)
RECURSIVE GetTestsFromChildrenLastFirst(_, _)
GetTestsFromNode(id) ==
    IF NodeType(id) = "suite" THEN GetTestsFromChildren(Children(id), 1)
    ELSE <<GetNode(id)>>

\* the loop over node.children pushing the later child's contexts first
GetTestsFromChildrenLastFirst(ch, i) ==
    IF i > Len(ch) THEN <<>>
    ELSE GetTestsFromChildrenLastFirst(ch, i + 1) \o GetTestsFromNode(ch[i])

\* the loop over node.children of GetTestsFromNode
GetTestsFromChildren(ch, i) ==
    IF i > Len(ch) THEN <<>>
    ELSE GetTestsFromNode(ch[i]) \o GetTestsFromChildren(ch, i + 1)

-----------------------------------------------------------------------------
(* Result reconciliation *)

\* the switch on result.outcome with the Error case taking result.message
OutcomeEventErrorMessage(id, result, old) ==
    CASE result.outcome = "Error" ->
           [type |-> "test", test |-> id, state |-> "errored",
            message |-> result.message]
      [] result.outcome = "Failed" ->
           [type |-> "test", test |-> id, state |-> "failed",
            message |-> result.message]
      [] result.outcome = "Passed" ->
           [type |-> "test", test |-> id, state |-> "passed",
            message |-> result.message]
      [] result.outcome = "NotExecuted" ->
           [type |-> "test", test |-> id, state |-> "skipped"]
      [] OTHER -> old

\* the switch on result.outcome: the new testContext.event, given the old
OutcomeEvent(id, result, old) ==
    CASE result.outcome = "Error" ->
           [type |-> "test", test |-> id, state |-> "errored",
            message |-> result.stackTrace]
      [] result.outcome = "Failed" ->
           [type |-> "test", test |-> id, state |-> "failed",
            message |-> result.message]
      [] result.outcome = "Passed" ->
           [type |-> "test", test |-> id, state |-> "passed",
            message |-> result.message]
      [] result.outcome = "NotExecuted" ->
           [type |-> "test", test |-> id, state |-> "skipped"]
      [] OTHER -> old

RECURSIVE ReconcileFrom(_, _, _, _)

\* the loop over the result records looking a record up among all the
\* registered tests instead of the leaves of the node
ReconcileFromAnyTest(ids, results, i, st) ==
    IF i > Len(results) THEN st
    ELSE LET result == results[i]
             id == result.fullName
         IN  IF id \in registry /\ NodeType(id) = "test"
             THEN LET e == OutcomeEvent(id, result, st.event[id])
                  IN  ReconcileFrom(ids, results, i + 1,
                        [event |-> [st.event EXCEPT ![id] = e],
                         fired |-> Append(st.fired, e)])
             ELSE ReconcileFrom(ids, results, i + 1, st)

\* the loop over the result records: st = [event, fired] before record i
ReconcileFrom(ids, results, i, st) ==
    IF i > Len(results) THEN st
    ELSE LET result == results[i]
             id == result.fullName
         IN  IF id \in ids
             THEN LET e == OutcomeEvent(id, result, st.event[id])
                  IN  ReconcileFrom(ids, results, i + 1,
                        [event |-> [st.event EXCEPT ![id] = e],
                         fired |-> Append(st.fired, e)])
             ELSE ReconcileFrom(ids, results, i + 1, st)

\* ParseTestResults(node, file) once the file is read as results: whether it
\* throws (a leaf without context), the contexts' events and the events fired
ParseTestResults(id, results, ev) ==
    LET testContexts == GetTestsFromNode(id)
        ids == { testContexts[k] : k \in 1..Len(testContexts) }
    IN  IF Undefined \in ids
        THEN [threw |-> TRUE, event |-> ev, fired |-> <<>>]
        ELSE LET st == ReconcileFrom(ids, results, 1,
                                     [event |-> ev, fired |-> <<>>])
             IN  [threw |-> FALSE, event |-> st.event, fired |-> st.fired]

-----------------------------------------------------------------------------
(* The run procedure *)

\* the env option of new Command: { VSTEST_HOST_DEBUG: ..., ...envVars },
\* as a set of <<name, value>> pairs; a spread key replaces an earlier one
LaunchEnv(isDebug, overlay) ==
    LET base == {<<"VSTEST_HOST_DEBUG", IF isDebug THEN "1" ELSE "0">>}
    IN  {kv \in base : \A o \in overlay : o[1] # kv[1]} \cup overlay

\* the for loop with RunTest creating the process before it fires the
\* running events, so that a failed launch fires none
ForLoopLaunchFirst(ids, ok) ==
    LET k == FirstFound(ids, 1)
    IN  IF k = 0
        THEN [node |-> Undefined, rest |-> <<>>, evs |-> <<>>,
              launched |-> FALSE, threw |-> FALSE]
        ELSE [node |-> ids[k], rest |-> SubSeq(ids, k + 1, Len(ids)),
              evs |-> IF ok THEN TriggerRunningEvents(ids[k]) ELSE <<>>,
              launched |-> ok, threw |-> ~ok]

\* the for loop of InnerRun over ids, up to the first await of RunTest:
\* identifiers GetNode does not find are skipped; for the first one found
\* RunTest fires the running events and launches the process (ok) or
\* new Command throws (~ok)
ForLoop(ids, ok) ==
    LET k == FirstFound(ids, 1)
    IN  IF k = 0
        THEN [node |-> Undefined, rest |-> <<>>, evs |-> <<>>,
              launched |-> FALSE, threw |-> FALSE]
        ELSE [node |-> ids[k], rest |-> SubSeq(ids, k + 1, Len(ids)),
              evs |-> TriggerRunningEvents(ids[k]),
              launched |-> ok, threw |-> ~ok]

\* run r, with record base, goes through the for loop over ids, starting
\* from the contexts' events ev and the fired events fr
RunTest(r, base, ids, ev, fr, ok) ==
    LET d == ForLoop(ids, ok)
        p == Len(procs) + 1
        rec == [base EXCEPT !.node = d.node, !.rest = d.rest,
                            !.pc = IF d.launched THEN "exit" ELSE "done",
                            !.proc = IF d.launched THEN p ELSE 0,
                            !.log = IF d.node = Undefined THEN @
                                    ELSE Append(@, d.evs)]
    IN  /\ fired' = fr \o d.evs
        /\ event' = SetEvents(ev, d.evs)
        /\ procs' = IF d.launched
                    THEN Append(procs, [state |-> "live", run |-> r,
                                        node |-> d.node,
                                        env |-> LaunchEnv(base.isDebug, envVars)])
                    ELSE procs
        /\ Runningtest' = IF d.launched THEN p ELSE Runningtest
        /\ logged' = IF d.threw THEN logged + 1 ELSE logged
        /\ runs' = IF r > Len(runs) THEN Append(runs, rec)
                   ELSE [runs EXCEPT ![r] = rec]

\* the record of a request that starts: tests is the list its for loop
\* goes through
NewRun(tests, isDebug) ==
    [tests |-> tests, isDebug |-> isDebug, rest |-> <<>>, node |-> Undefined,
     pc |-> "done", proc |-> 0, log |-> <<>>, cancelled |-> FALSE]

\* InnerRun past its guard without the expansion of 'root'
StartRunAsGiven(tests, isDebug, ok) ==
    RunTest(Len(runs) + 1, NewRun(tests, isDebug), tests, event, fired, ok)

\* InnerRun past its guard: the expansion of 'root' (which assigns tests)
\* and the for loop, up to the first await
StartRun(tests, isDebug, ok) ==
    LET r == Len(runs) + 1
    IN  IF tests # <<>> /\ tests[1] = "root"
        THEN IF GetNode("root") = Undefined
             THEN \* tests becomes undefined and the for loop throws
                  /\ runs' = Append(runs, NewRun(<<>>, isDebug))
                  /\ logged' = logged + 1
                  /\ UNCHANGED <<event, Runningtest, procs, fired>>
             ELSE RunTest(r, NewRun(Children("root"), isDebug),
                          Children("root"), event, fired, ok)
        ELSE RunTest(r, NewRun(tests, isDebug), tests, event, fired, ok)

\* a call of Run or Debug, as the calls are counted
Called(isDebug) ==
    /\ calls < MaxCalls
    /\ calls' = calls + 1
    /\ step' = [op |-> IF isDebug THEN "Debug" ELSE "Run", prev |-> step.op]
    /\ UNCHANGED <<registry, envVars, cancels>>

\* InnerRun without its guard on the running-handle
InnerRunUnguarded(tests, isDebug, ok) ==
    /\ Called(isDebug)
    /\ StartRun(tests, isDebug, ok)

\* InnerRun(tests, isDebug), up to its first await
InnerRun(tests, isDebug, ok) ==
    /\ Called(isDebug)
    /\ IF Runningtest # 0
       THEN UNCHANGED <<event, Runningtest, procs, runs, fired, logged>>
       ELSE StartRun(tests, isDebug, ok)

Run(tests, ok) == InnerRun(tests, FALSE, ok)

Debug(tests, ok) == InnerRun(tests, TRUE, ok)

\* Cancel() without the assignment that clears the running-handle
CancelKeepsHandle ==
    /\ cancels < MaxCancels
    /\ cancels' = cancels + 1
    /\ step' = [op |-> "Cancel"]
    /\ UNCHANGED <<registry, envVars, event, fired, logged, calls>>
    /\ IF Runningtest # 0
       THEN /\ procs' = [procs EXCEPT ![Runningtest].state =
                            IF @ = "live" THEN "killed" ELSE @]
            /\ runs' = [runs EXCEPT ![procs[Runningtest].run].cancelled = TRUE]
            /\ UNCHANGED Runningtest
       ELSE UNCHANGED <<Runningtest, procs, runs>>

\* Cancel()
Cancel ==
    /\ cancels < MaxCancels
    /\ cancels' = cancels + 1
    /\ step' = [op |-> "Cancel"]
    /\ UNCHANGED <<registry, envVars, event, fired, logged, calls>>
    /\ IF Runningtest # 0
       THEN /\ procs' = [procs EXCEPT ![Runningtest].state =
                            IF @ = "live" THEN "killed" ELSE @]
            /\ runs' = [runs EXCEPT ![procs[Runningtest].run].cancelled = TRUE]
            /\ Runningtest' = 0
       ELSE UNCHANGED <<Runningtest, procs, runs>>

\* process p closes and RunTest resumes without the assignment of line 110
ProcessExitKeepsHandle(p) ==
    /\ procs[p].state \in {"live", "killed"}
    /\ LET r == procs[p].run
       IN  /\ runs[r].pc = "exit" /\ runs[r].proc = p
           /\ runs' = [runs EXCEPT ![r].pc = "read"]
    /\ procs' = [procs EXCEPT ![p].state = "exited"]
    /\ step' = [op |-> "exit", proc |-> p]
    /\ UNCHANGED <<registry, envVars, event, Runningtest, fired, logged, calls,
                   cancels>>

\* process p closes: exitCode resolves and RunTest resumes after line 109,
\* clears the handle and starts the results-file read
ProcessExit(p) ==
    /\ procs[p].state \in {"live", "killed"}
    /\ LET r == procs[p].run
       IN  /\ runs[r].pc = "exit" /\ runs[r].proc = p
           /\ runs' = [runs EXCEPT ![r].pc = "read"]
    /\ procs' = [procs EXCEPT ![p].state = "exited"]
    /\ Runningtest' = 0
    /\ step' = [op |-> "exit", proc |-> p]
    /\ UNCHANGED <<registry, envVars, event, fired, logged, calls, cancels>>

\* process p errors and RunTest goes on after line 109 as if it had exited
ProcessErrorGoesOn(p) ==
    /\ procs[p].state \in {"live", "killed"}
    /\ LET r == procs[p].run
       IN  /\ runs[r].pc = "exit" /\ runs[r].proc = p
           /\ runs' = [runs EXCEPT ![r].pc = "read"]
    /\ procs' = [procs EXCEPT ![p].state = "failed"]
    /\ logged' = logged + 1
    /\ step' = [op |-> "error", proc |-> p]
    /\ UNCHANGED <<registry, envVars, event, Runningtest, fired, calls, cancels>>

\* process p errors: exitCode rejects, the await of line 109 throws and the
\* catch of InnerRun logs it
ProcessError(p) ==
    /\ procs[p].state \in {"live", "killed"}
    /\ LET r == procs[p].run
       IN  /\ runs[r].pc = "exit" /\ runs[r].proc = p
           /\ runs' = [runs EXCEPT ![r].pc = "done"]
    /\ procs' = [procs EXCEPT ![p].state = "failed"]
    /\ logged' = logged + 1
    /\ step' = [op |-> "error", proc |-> p]
    /\ UNCHANGED <<registry, envVars, event, Runningtest, fired, calls, cancels>>

\* the results-file read of run r yields results: ParseTestResults fires the
\* reconciled events, MarkSuiteComplete the completed events, and InnerRun
\* goes on with the identifiers left
ReadResults(r, results, ok) ==
    /\ runs[r].pc = "read"
    /\ UNCHANGED <<registry, envVars, calls, cancels>>
    /\ LET parsed == ParseTestResults(runs[r].node, results, event)
           done == MarkSuiteComplete(runs[r].node)
       IN  /\ step' = [op |-> "read", run |-> r, node |-> runs[r].node,
                       results |-> results, threw |-> parsed.threw,
                       reconciled |-> parsed.fired]
           /\ IF parsed.threw
              THEN /\ runs' = [runs EXCEPT ![r].pc = "done"]
                   /\ logged' = logged + 1
                   /\ UNCHANGED <<event, Runningtest, procs, fired>>
              ELSE RunTest(r, [runs[r] EXCEPT
                                 !.log[Len(runs[r].log)] =
                                      @ \o parsed.fired \o done],
                           runs[r].rest, SetEvents(parsed.event, done),
                           fired \o parsed.fired \o done, ok)

\* the results-file read of run r fails: parseResults rejects and the catch
\* of InnerRun logs it
ReadError(r) ==
    /\ runs[r].pc = "read"
    /\ runs' = [runs EXCEPT ![r].pc = "done"]
    /\ logged' = logged + 1
    /\ step' = [op |-> "readError", run |-> r]
    /\ UNCHANGED <<registry, envVars, event, Runningtest, procs, fired, calls,
                   cancels>>

-----------------------------------------------------------------------------
InitWith(regs, overlays) ==
    /\ registry \in regs
    /\ envVars \in overlays
    /\ event = [n \in Nodes |-> NoEvent]
    /\ Runningtest = 0
    /\ procs = <<>>
    /\ runs = <<>>
    /\ fired = <<>>
    /\ logged = 0
    /\ calls = 0
    /\ cancels = 0
    /\ step = [op |-> "init"]

\* every node of the tree registered, no environment overlay configured
Init == InitWith({Nodes}, {{}})

\* any of the registries and overlays
InitAny == InitWith(Registries, Overlays)

Next ==
    \/ \E tests \in Requests, ok \in BOOLEAN : Run(tests, ok)
    \/ \E tests \in Requests, ok \in BOOLEAN : Debug(tests, ok)
    \/ Cancel
    \/ \E p \in 1..Len(procs) : ProcessExit(p)
    \/ \E p \in 1..Len(procs) : ProcessError(p)
    \/ \E r \in 1..Len(runs), results \in SampleFiles, ok \in BOOLEAN :
          ReadResults(r, results, ok)
    \/ \E r \in 1..Len(runs) : ReadError(r)

\* any interleaving of calls, process exits and results-file reads
Spec == Init /\ [][Next]_vars

\* one Run request, with every results file of the bounded length
NextRecon ==
    \/ calls = 0 /\ \E tests \in SingleRequests : Run(tests, TRUE)
    \/ \E p \in 1..Len(procs) : ProcessExit(p)
    \/ \E r \in 1..Len(runs), results \in ResultFiles :
          ReadResults(r, results, TRUE)

SpecRecon == InitAny /\ [][NextRecon]_vars

\* GetTestsFromNode(node) on its own: it returns the contexts, assigns no
\* field and fires nothing
Flatten(id) ==
    /\ step' = [op |-> "flatten", node |-> id,
                contexts |-> GetTestsFromNode(id)]
    /\ UNCHANGED <<registry, envVars, event, Runningtest, procs, runs, fired,
                   logged, calls, cancels>>

\* one Run request as in NextRecon, and the flattening of any node
NextFlatten ==
    \/ calls = 0 /\ \E tests \in SingleRequests : Run(tests, TRUE)
    \/ \E p \in 1..Len(procs) : ProcessExit(p)
    \/ \E r \in 1..Len(runs), results \in SampleFiles :
          ReadResults(r, results, TRUE)
    \/ \E id \in Nodes : Flatten(id)

SpecFlatten == InitAny /\ [][NextFlatten]_vars

\* requests whose processes all exit and whose results files are all read,
\* and no Cancel: a Run of a suite and a test, a Debug of a suite after an
\* identifier the registry does not hold, one results file
NextLive ==
    \/ \E ok \in BOOLEAN : Run(<<"s2", "t3">>, ok)
    \/ Debug(<<"zz", "s2">>, TRUE)
    \/ \E p \in 1..Len(procs) : ProcessExit(p)
    \/ \E r \in 1..Len(runs), ok \in BOOLEAN :
          ReadResults(r, <<Result("t2", "Passed")>>, ok)

\* every launched process closes and every results-file read completes: the
\* awaits of lines 109 and 150 are resumed once the promise settles
Fairness ==
    /\ WF_vars(\E p \in 1..Len(procs) : ProcessExit(p))
    /\ WF_vars(\E r \in 1..Len(runs), ok \in BOOLEAN :
                  ReadResults(r, <<Result("t2", "Passed")>>, ok))

SpecLive == Init /\ [][NextLive]_vars /\ Fairness

\* Run and Debug requests of one or two identifiers under every registry and
\* every configured overlay, no Cancel and no failed process or read
NextEnv ==
    \/ \E tests \in SingleRequests, ok \in BOOLEAN : Run(tests, ok)
    \/ \E tests \in SingleRequests, ok \in BOOLEAN : Debug(tests, ok)
    \/ \E p \in 1..Len(procs) : ProcessExit(p)
    \/ \E r \in 1..Len(runs), results \in SampleFiles :
          ReadResults(r, results, TRUE)

SpecEnv == InitAny /\ [][NextEnv]_vars

\* longer sequences of calls: Run of the whole tree, Debug of one test after
\* an identifier the registry does not hold, one results file
NextCalls ==
    \/ \E ok \in BOOLEAN : Run(<<"root">>, ok)
    \/ \E ok \in BOOLEAN : Debug(<<"zz", "t1">>, ok)
    \/ Cancel
    \/ \E p \in 1..Len(procs) : ProcessExit(p)
    \/ \E p \in 1..Len(procs) : ProcessError(p)
    \/ \E r \in 1..Len(runs), ok \in BOOLEAN :
          ReadResults(r, <<Result("t2", "Failed"), Result("t1", "Passed")>>, ok)
    \/ \E r \in 1..Len(runs) : ReadError(r)

SpecCalls == Init /\ [][NextCalls]_vars

-----------------------------------------------------------------------------
(* Notions the properties are stated with *)

\* the processes that are live: launched, not exited, not killed by Cancel
LiveProcs == { p \in 1..Len(procs) : procs[p].state = "live" }

\* a request that has started and has neither finished nor been cancelled
RunInProgress ==
    \E r \in 1..Len(runs) : runs[r].pc # "done" /\ ~runs[r].cancelled

\* a step that is a call of Run or Debug
IsCall == calls' = calls + 1

\* a step that is a call of Cancel
IsCancel == cancels' = cancels + 1

-----------------------------------------------------------------------------
(* C1: at most one external process launched by the orchestrator is live at
   any moment, under every interleaving of Run, Debug and Cancel calls with
   process exits and results-file reads. *)
AtMostOneLiveProcess == Cardinality(LiveProcs) <= 1

(* C2: a Run/Debug request made while an earlier request has started and not
   yet finished (its results not yet reconciled, its completion events not yet
   fired) is dropped: it launches no process and fires no event. *)
RequestDroppedWhileRunInProgress ==
    [][ (IsCall /\ RunInProgress) => (procs' = procs /\ fired' = fired) ]_vars

(* C3: a Run or Debug call made while the running-handle is set is a no-op:
   no process is launched, no event is fired, and the running-handle and every
   context's event stay as they are. *)
CallWithHandleSetIsNoOp ==
    [][ (IsCall /\ Runningtest # 0) =>
          /\ procs' = procs
          /\ fired' = fired
          /\ Runningtest' = Runningtest
          /\ event' = event
          /\ runs' = runs
          /\ logged' = logged ]_vars

\* a call has just been dropped while the running-handle was set
CallDroppedWitness ==
    /\ step.op \in {"Run", "Debug"}
    /\ calls > Len(runs)
    /\ Runningtest # 0
    /\ procs[Runningtest].state = "live"

(* C4: Cancel with no active run changes nothing; Cancel with an active run
   kills the running process and clears the running-handle without firing an
   event, and a Run or Debug call made right after it is not dropped: it
   starts its request and, unless the launch throws, its process is live and
   held by the running-handle. *)
CancelClearsHandle ==
    [][ /\ (IsCancel /\ Runningtest = 0) =>
              /\ procs' = procs /\ runs' = runs /\ Runningtest' = 0
              /\ fired' = fired /\ event' = event /\ logged' = logged
        /\ (IsCancel /\ Runningtest # 0) =>
              /\ procs'[Runningtest].state # "live"
              /\ \A p \in 1..Len(procs) : p # Runningtest => procs'[p] = procs[p]
              /\ Len(procs') = Len(procs)
              /\ Runningtest' = 0
              /\ fired' = fired /\ event' = event /\ logged' = logged
        /\ (IsCall /\ step.op = "Cancel") =>
              /\ Len(runs') = Len(runs) + 1
              /\ fired' # fired
              /\ \/ logged' = logged + 1 /\ procs' = procs
                 \/ /\ logged' = logged
                    /\ Len(procs') = Len(procs) + 1
                    /\ procs'[Len(procs')].state = "live"
                    /\ procs'[Len(procs')].run = Len(runs')
                    /\ Runningtest' = Len(procs') ]_vars

\* a call made right after the Cancel of an active run has launched its process
RunAfterCancelWitness ==
    /\ step.op \in {"Run", "Debug"}
    /\ step.prev = "Cancel"
    /\ \E p \in 1..Len(procs) : procs[p].state = "killed"
    /\ Runningtest = Len(procs)
    /\ procs[Runningtest].state = "live"
    /\ procs[Runningtest].run = Len(runs)

(* C10: an error raised during a Run/Debug request is caught and logged and
   does not leave the running-handle set: when the failed request ends, the
   running-handle does not hold a process of that request. *)
FailedRequestLeavesNoHandle ==
    [][ \A r \in 1..Len(runs) :
          (runs[r].pc # "done" /\ runs'[r].pc = "done" /\ logged' = logged + 1)
            => (Runningtest' = 0 \/ procs'[Runningtest'].run # r) ]_vars

-----------------------------------------------------------------------------
(* Notions the properties of the events are stated with *)

\* the nodes below a node of the tree
RECURSIVE Descendants(_)
Descendants(id) ==
    LET ch == { Children(id)[k] : k \in 1..Len(Children(id)) }
    IN  ch \cup UNION { Descendants(c) : c \in ch }

\* the leaf tests under a node (the node itself when it is a test)
LeafIds(id) ==
    IF NodeType(id) = "test" THEN {id}
    ELSE { d \in Descendants(id) : NodeType(d) = "test" }

\* the outcomes the reconciliation maps to a state
Recognised(o) == o \in {"Error", "Failed", "Passed", "NotExecuted"}

\* the records of a results file whose fullName is in ids, in file order
RECURSIVE Restrict(_, _)
Restrict(results, ids) ==
    IF results = <<>> THEN <<>>
    ELSE IF Head(results).fullName \in ids
         THEN <<Head(results)>> \o Restrict(Tail(results), ids)
         ELSE Restrict(Tail(results), ids)

\* the events fired so far that carry the identifier n, in order
RECURSIVE EventsOf(_, _)
EventsOf(evs, n) ==
    IF evs = <<>> THEN <<>>
    ELSE IF EventId(Head(evs)) = n
         THEN <<Head(evs)>> \o EventsOf(Tail(evs), n)
         ELSE EventsOf(Tail(evs), n)

\* the last handler was a results-file read that was reconciled
Reconciled == step.op = "read" /\ ~step.threw

(* C5: in the events fired by the run of a suite, the suite's running event
   comes before every event of each of its descendants, and the suite's
   completed event comes after every terminal event of each descendant. *)
SuiteEventsBracketDescendants ==
    \A r \in 1..Len(runs) : \A k \in 1..Len(runs[r].log) :
      LET L == runs[r].log[k]
      IN  \A s \in Nodes : \A d \in Descendants(s) : \A i, j \in 1..Len(L) :
            /\ (L[i] = SuiteEvent(s, "running") /\ EventId(L[j]) = d) => i < j
            /\ (L[i] = SuiteEvent(s, "completed") /\ EventId(L[j]) = d
                  /\ L[j].state # "running") => j < i

\* the run of suite s1 has fired the terminal event of the nested leaf t2, the
\* completed event of the nested suite s2 and its own completed event
SuiteCompletedWitness ==
    \E r \in 1..Len(runs) : \E k \in 1..Len(runs[r].log) :
      LET L == runs[r].log[k]
      IN  /\ L # <<>>
          /\ L[1] = SuiteEvent("s1", "running")
          /\ L[Len(L)] = SuiteEvent("s1", "completed")
          /\ \E i, j \in 1..Len(L) :
                /\ L[i] = SuiteEvent("s2", "completed")
                /\ EventId(L[j]) = "t2" /\ L[j].state = "failed"

(* C6: the events fired for a node follow only running then one terminal
   state (tests) or running then completed (suites): every terminal or
   completed event is immediately preceded, among the node's events, by a
   running event, and no node gets two running events in a row. *)
NodeEventsAlternate ==
    \A n \in Nodes :
      LET q == EventsOf(fired, n)
      IN  \A i \in 1..Len(q) :
            /\ q[i].state # "running" => (i > 1 /\ q[i - 1].state = "running")
            /\ (q[i].state = "running" /\ i > 1) => q[i - 1].state # "running"

(* C7: a result record that matches a leaf test and whose outcome is none of
   Error, Failed, Passed, NotExecuted fires no event, and leaves the leaf's
   context event unchanged. *)
UnrecognisedOutcomeFiresNothing ==
    [][ (step'.op = "read" /\ ~step'.threw) =>
          LET leaves == LeafIds(step'.node)
              matched == Restrict(step'.results, leaves)
              known == { i \in 1..Len(matched) : Recognised(matched[i].outcome) }
          IN  /\ Len(step'.reconciled) = Cardinality(known)
              /\ \A n \in leaves :
                    (\A i \in 1..Len(matched) :
                        matched[i].fullName = n => ~Recognised(matched[i].outcome))
                      => event'[n] = event[n] ]_vars

(* C8: for every result record that matches a leaf test and has a recognised
   outcome, the event fired for it carries the leaf's identifier and: Error
   gives errored with the record's stack trace as message, Failed gives failed
   and Passed gives passed with the record's message, NotExecuted gives
   skipped with no message field. *)
OutcomeMapsToEvent ==
    Reconciled =>
      LET matched == Restrict(step.results, LeafIds(step.node))
      IN  \A i \in 1..Len(matched) :
            LET rec == matched[i]
                e == step.reconciled[i]
            IN  Recognised(rec.outcome) =>
                  /\ i <= Len(step.reconciled)
                  /\ e.type = "test" /\ e.test = rec.fullName
                  /\ rec.outcome = "Error" =>
                        (e.state = "errored" /\ DOMAIN e = {"type", "test", "state", "message"}
                           /\ e.message = rec.stackTrace)
                  /\ rec.outcome = "Failed" =>
                        (e.state = "failed" /\ DOMAIN e = {"type", "test", "state", "message"}
                           /\ e.message = rec.message)
                  /\ rec.outcome = "Passed" =>
                        (e.state = "passed" /\ DOMAIN e = {"type", "test", "state", "message"}
                           /\ e.message = rec.message)
                  /\ rec.outcome = "NotExecuted" =>
                        (e.state = "skipped" /\ DOMAIN e = {"type", "test", "state"})

\* a file with an Error record and a NotExecuted record has been reconciled
OutcomeMappedWitness ==
    /\ Reconciled
    /\ Len(step.results) = 2
    /\ step.results[1].outcome = "Error"
    /\ step.results[2].outcome = "NotExecuted"
    /\ Len(step.reconciled) = 2
    /\ step.reconciled[1].state = "errored"
    /\ step.reconciled[2].state = "skipped"

(* C9: reconciliation of a node fires one event per result record whose
   fullName is the identifier of a leaf test under the node, and none for any
   other record; when the outcomes of those records are recognised, the events
   are for exactly those records, in results-file order. *)
EventsFollowFileOrder ==
    Reconciled =>
      LET matched == Restrict(step.results, LeafIds(step.node))
      IN  /\ Len(step.reconciled) = Len(matched)
          /\ (\A i \in 1..Len(matched) : Recognised(matched[i].outcome)) =>
                \A i \in 1..Len(matched) :
                  /\ EventId(step.reconciled[i]) = matched[i].fullName
                  /\ step.reconciled[i].state # "running"

\* a file naming the leaves of s1 against tree order has been reconciled
FileOrderWitness ==
    /\ Reconciled
    /\ step.node = "s1"
    /\ Len(step.results) = 2
    /\ step.results[1].fullName = "t2"
    /\ step.results[2].fullName = "t1"
    /\ Recognised(step.results[2].outcome)
    /\ Len(step.reconciled) = 2
    /\ EventId(step.reconciled[1]) = "t2"

-----------------------------------------------------------------------------
(* C11: with the root node in the registry, requesting ["root"] is the same
   as requesting the identifiers of root's immediate children in stored
   order: from every state, a step is the Run (Debug) of ["root"] exactly
   when it is the Run (Debug) of that list, so both leave the orchestrator in
   the same state, with the same events fired, the same process launched and
   the same identifiers left to run. *)
RootIsItsChildren ==
    [][ GetNode("root") # Undefined =>
          \A isDebug, ok \in BOOLEAN :
              InnerRun(<<"root">>, isDebug, ok)
                <=> InnerRun(Children("root"), isDebug, ok) ]_vars

\* a request of ["root"] has started: the events of root's first child are
\* fired, its process is live and the second child is left to run
RootRequestWitness ==
    /\ step.op = "Run"
    /\ Len(runs) = 1
    /\ runs[1].pc = "exit"
    /\ runs[1].node = "s1"
    /\ runs[1].rest = <<"t3">>
    /\ fired # <<>>
    /\ fired[1] = SuiteEvent("s1", "running")
    /\ Runningtest = 1

-----------------------------------------------------------------------------
(* C12: every launched process has VSTEST_HOST_DEBUG equal to "1" when its
   request is a Debug request and to "0" when it is a Run request, and no
   other value for it, together with every configured overlay variable of
   another name. *)
LaunchedWithDebugFlag ==
    \A p \in 1..Len(procs) :
        LET flag == IF runs[procs[p].run].isDebug THEN "1" ELSE "0"
        IN  /\ \A kv \in procs[p].env :
                  kv[1] = "VSTEST_HOST_DEBUG" => kv[2] = flag
            /\ <<"VSTEST_HOST_DEBUG", flag>> \in procs[p].env
            /\ \A kv \in envVars :
                  kv[1] # "VSTEST_HOST_DEBUG" => kv \in procs[p].env

-----------------------------------------------------------------------------
\* leaf a comes before leaf b in the depth-first, child-order walk: some
\* suite has a at or under an earlier child than b
Before(a, b) ==
    \E s \in Nodes : \E i, j \in 1..Len(Children(s)) :
        /\ i < j
        /\ a \in LeafIds(Children(s)[i])
        /\ b \in LeafIds(Children(s)[j])

(* C13: flattening a node returns one context per leaf test under it (the
   node itself when it is a test), each leaf's context at the place the
   depth-first, child-order walk gives the leaf, and it changes no field of
   the orchestrator or of a context and fires no event. *)
FlattenGivesLeavesInOrder ==
    [][ step'.op = "flatten" =>
          LET id == step'.node
              contexts == step'.contexts
          IN  /\ Len(contexts) = Cardinality(LeafIds(id))
              /\ \A a \in LeafIds(id) :
                    contexts[1 + Cardinality({ b \in LeafIds(id) :
                                                 Before(b, a) })] = GetNode(a)
              /\ UNCHANGED <<registry, envVars, event, Runningtest, procs,
                             fired>> ]_vars

\* the spec's example: a suite holding a test and a suite with one test is
\* flattened, while its run is in progress, to the two tests in that order
FlattenWitness ==
    /\ step.op = "flatten"
    /\ step.node = "s1"
    /\ step.contexts = <<"t1", "t2">>
    /\ fired # <<>>
    /\ Runningtest # 0

-----------------------------------------------------------------------------
(* C14: whenever a suite's completed event is fired in a single-node run,
   the last event fired before it in that run for each leaf test under the
   suite is a terminal one, not running. *)
LeavesTerminalAtSuiteCompleted ==
    \A r \in 1..Len(runs) : \A k \in 1..Len(runs[r].log) :
      LET L == runs[r].log[k]
      IN  \A s \in Nodes : \A i \in 1..Len(L) :
            L[i] = SuiteEvent(s, "completed") =>
              \A d \in LeafIds(s) :
                LET q == EventsOf(SubSeq(L, 1, i), d)
                IN  q # <<>> /\ q[Len(q)].state # "running"

-----------------------------------------------------------------------------
\* GetNode finds the identifier
IsFound(id) == GetNode(id) # Undefined

\* the processes launched by run r, in launch order
ProcsOf(r) == SelectSeq([p \in 1..Len(procs) |-> p],
                        LAMBDA p : procs[p].run = r)

\* evs ends with the events tl
EndsWith(evs, tl) ==
    /\ Len(tl) <= Len(evs)
    /\ SubSeq(evs, Len(evs) - Len(tl) + 1, Len(evs)) = tl

(* C15: a request goes through its identifiers serially and in list order:
   its k-th single-node run is that of the k-th identifier the registry
   holds (the others are skipped and get no event), all its events are of
   that node and its descendants, and when a later single-node run has
   started, the earlier one's process has exited and its events end with
   the completion events of its node, the running events of the later one
   coming after them. *)
IdentifiersRunSerially ==
    \A r \in 1..Len(runs) :
      LET found == SelectSeq(runs[r].tests, IsFound)
          log == runs[r].log
          ps == ProcsOf(r)
      IN  /\ Len(log) <= Len(found)
          /\ Len(ps) <= Len(log)
          /\ \A k \in 1..Len(log) :
                LET below == {found[k]} \cup Descendants(found[k])
                    running == TriggerRunningEvents(found[k])
                    completed == MarkSuiteComplete(found[k])
                IN  /\ \A i \in 1..Len(log[k]) : EventId(log[k][i]) \in below
                    /\ SubSeq(log[k], 1, Len(running)) = running
                    /\ k < Len(log) =>
                          /\ k <= Len(ps)
                          /\ procs[ps[k]].state = "exited"
                          /\ Len(log[k]) >= Len(running) + Len(completed)
                          /\ EndsWith(log[k], completed)
          /\ \A j \in 1..Len(ps) :
                /\ procs[ps[j]].node = found[j]
                /\ j < Len(ps) => procs[ps[j]].state = "exited"

\* a request of a suite and then a test: the suite's run is over, with its
\* completed event fired and its process exited, and the test's process is
\* live
SecondIdentifierWitness ==
    \E r \in 1..Len(runs) :
        /\ runs[r].tests = <<"s1", "t3">>
        /\ Len(runs[r].log) = 2
        /\ EndsWith(runs[r].log[1], <<SuiteEvent("s1", "completed")>>)
        /\ runs[r].log[2] = <<TestEventRunning("t3")>>
        /\ runs[r].pc = "exit"
        /\ procs[runs[r].proc].state = "live"

\* a request whose first identifier is not in the registry has gone on to its
\* second one, with no event for the first
SkippedIdentifierWitness ==
    \E r \in 1..Len(runs) :
        /\ runs[r].tests = <<"zz", "t1">>
        /\ runs[r].log = <<<<TestEventRunning("t1")>>>>
        /\ runs[r].pc = "exit"

-----------------------------------------------------------------------------
\* a node and the nodes below it
Subtree(id) == {id} \cup Descendants(id)

\* the running event of a node of the tree
RunningEventOf(id) ==
    IF NodeType(id) = "suite" THEN SuiteEvent(id, "running")
    ELSE TestEventRunning(id)

\* evs is the running events of node n and of all its descendants, each
\* once, a suite before its descendants and the children in stored order
RunningTopDown(evs, n) ==
    /\ Len(evs) = Cardinality(Subtree(n))
    /\ \A d \in Subtree(n) : \E i \in 1..Len(evs) : evs[i] = RunningEventOf(d)
    /\ \A s \in Subtree(n) : \A i, j \in 1..Len(evs) :
          /\ (evs[i] = RunningEventOf(s) /\ EventId(evs[j]) \in Descendants(s))
                => i < j
          /\ \A a, b \in 1..Len(Children(s)) :
                (/\ a < b
                 /\ EventId(evs[i]) \in Subtree(Children(s)[a])
                 /\ EventId(evs[j]) \in Subtree(Children(s)[b])) => i < j

\* this step starts a single-node run of request r
StartsNodeRun(r) ==
    /\ r \in 1..Len(runs')
    /\ Len(runs'[r].log) > (IF r <= Len(runs) THEN Len(runs[r].log) ELSE 0)

(* C16: a step that starts the single-node run of a node whose subtree the
   registry holds fires, as its last events, the running events of the node
   and of all its descendants, top-down and in stored order, whether or not a
   process is then launched; and a process is launched only in such a step,
   for the node whose running events were fired. *)
RunningEventsBeforeLaunch ==
    [][ /\ \A r \in 1..Len(runs') :
              (StartsNodeRun(r) /\ Subtree(runs'[r].node) \subseteq registry) =>
                  LET evs == runs'[r].log[Len(runs'[r].log)]
                  IN  /\ RunningTopDown(evs, runs'[r].node)
                      /\ Len(fired') >= Len(fired) + Len(evs)
                      /\ EndsWith(fired', evs)
        /\ Len(procs') > Len(procs) =>
              LET p == procs'[Len(procs')]
              IN  /\ StartsNodeRun(p.run)
                  /\ p.node = runs'[p.run].node ]_vars

\* the launch of the process for suite s1 has failed: the request is over
\* with no process, and the running events of s1, t1, s2 and t2 are fired
RunningFiredLaunchFailedWitness ==
    \E r \in 1..Len(runs) :
        /\ runs[r].node = "s1"
        /\ runs[r].pc = "done"
        /\ runs[r].proc = 0
        /\ runs[r].log = << <<SuiteEvent("s1", "running"),
                              TestEventRunning("t1"),
                              SuiteEvent("s2", "running"),
                              TestEventRunning("t2")>> >>
        /\ \A p \in 1..Len(procs) : procs[p].run # r
        /\ logged > 0

-----------------------------------------------------------------------------
\* this step is a failure of the single-node run of request r: its process
\* errors, its results-file read fails, or its launch throws
FailsNodeRun(r) ==
    \/ step'.op = "error" /\ procs[step'.proc].run = r
    \/ step'.op = "readError" /\ step'.run = r
    \/ StartsNodeRun(r) /\ Len(procs') = Len(procs)

\* the events of evs are all running events
OnlyRunning(evs) == \A i \in 1..Len(evs) : evs[i].state = "running"

(* C17: a step in which a single-node run fails ends the request: the request
   is over with its remaining identifiers left, no process is launched, the
   failed node has only its running events (none at all is fired by a failed
   process or read; a failed launch comes after the node's running events),
   and a request that is over never moves again: its identifiers left, its
   events and its processes stay as they are. *)
RequestAbortedOnFailure ==
    [][ \A r \in 1..Len(runs') :
          /\ FailsNodeRun(r) =>
                LET log == runs'[r].log
                IN  /\ runs'[r].pc = "done"
                    /\ Len(procs') = Len(procs)
                    /\ log # <<>> /\ OnlyRunning(log[Len(log)])
                    /\ IF StartsNodeRun(r)
                       THEN EndsWith(fired', log[Len(log)])
                       ELSE fired' = fired /\ runs'[r].rest = runs[r].rest
          /\ (r <= Len(runs) /\ runs[r].pc = "done") =>
                /\ runs'[r].pc = "done"
                /\ runs'[r].rest = runs[r].rest
                /\ runs'[r].log = runs[r].log
                /\ Len(procs') > Len(procs) => procs'[Len(procs')].run # r
      ]_vars

\* the process for s1 of a request of s1 and t3 has failed, the request is
\* over with t3 left, and another handler has run since: t3 has no event
\* and no process from this request
FailedRequestWitness ==
    \E r \in 1..Len(runs) :
        /\ runs[r].pc = "done"
        /\ runs[r].node = "s1"
        /\ runs[r].rest = <<"t3">>
        /\ runs[r].proc # 0
        /\ procs[runs[r].proc].state = "failed"
        /\ runs[r].log = <<TriggerRunningEvents("s1")>>
        /\ step.op \notin {"error", "init"}

-----------------------------------------------------------------------------
(* C18: a request whose running process Cancel() has killed launches no
   further process and fires no further event: in every later step its
   events stay as they are and no process is launched for it. *)
CancelStopsRequest ==
    [][ \A r \in 1..Len(runs) :
          runs[r].cancelled =>
              /\ runs'[r].log = runs[r].log
              /\ Len(procs') > Len(procs) => procs'[Len(procs')].run # r
      ]_vars

-----------------------------------------------------------------------------
(* C19: the running-handle is set exactly when some launched process is
   live, and then refers to a live process. Stated for the states in which no
   process has failed, where a handle left behind by a failed process
   (C10) plays no part. *)
HandleIsTheLiveProcess ==
    (\A p \in 1..Len(procs) : procs[p].state # "failed") =>
        /\ (Runningtest # 0) <=> (LiveProcs # {})
        /\ Runningtest # 0 => Runningtest \in LiveProcs

\* the second half of C19: a single-node run that resumes when its process
\* closes clears the handle only if the handle refers to that process
HandleClearedByItsOwnRun ==
    [][ (step'.op = "exit" /\ Runningtest # 0) =>
            Runningtest = step'.proc ]_vars

-----------------------------------------------------------------------------
\* request r is over and the completed event of every suite it names that
\* the registry holds has been fired
RequestFinished(r) ==
    /\ runs[r].pc = "done"
    /\ \A k \in 1..Len(runs[r].tests) :
          LET id == runs[r].tests[k]
          IN  (IsFound(id) /\ NodeType(id) = "suite") =>
                 \E j \in 1..Len(runs[r].log) : \E i \in 1..Len(runs[r].log[j]) :
                     runs[r].log[j][i] = SuiteEvent(id, "completed")

\* a launch of request r has thrown: it has started more single-node runs
\* than it has launched processes
LaunchFailed(r) ==
    /\ runs[r].pc = "done"
    /\ Len(ProcsOf(r)) < Len(runs[r].log)

(* C20 as stated: when every launched process exits, every results-file read
   succeeds and Cancel is never called, every request that is not dropped
   eventually finishes: the handle is eventually empty and the completed
   event of every registered suite it names is eventually fired. *)
EveryRequestFinishes ==
    /\ \A r \in 1..MaxCalls :
          (r <= Len(runs)) ~> (r <= Len(runs) /\ RequestFinished(r))
    /\ (Len(runs) > 0) ~> (Runningtest = 0)

(* C20 amended: under the same conditions every request that is not dropped
   eventually is over with the handle empty, and the completed event of
   every registered suite it names is eventually fired unless a launch of
   the request has thrown. *)
EveryRequestFinishesUnlessLaunchFails ==
    /\ \A r \in 1..MaxCalls :
          (r <= Len(runs)) ~>
              (r <= Len(runs) /\ (RequestFinished(r) \/ LaunchFailed(r)))
    /\ (Len(runs) > 0) ~> (Runningtest = 0)

\* a request of s2 and t3 is over, every launch having succeeded: the
\* completed event of s2 is fired, both processes have exited and the handle
\* is empty
RequestFinishedWitness ==
    \E r \in 1..Len(runs) :
        /\ runs[r].tests = <<"s2", "t3">>
        /\ RequestFinished(r)
        /\ ~LaunchFailed(r)
        /\ Len(ProcsOf(r)) = 2
        /\ \A p \in 1..Len(procs) : procs[p].state = "exited"
        /\ Runningtest = 0

====
